---- MODULE Spec2Model ----
(***************************************************************************)
(* A model of the raw-socket HTTP server (web_server/async_web_server.py)  *)
(* and of the routing layer it drives (web_framework/web_framework.py).    *)
(*                                                                         *)
(* Text is a sequence of one-character strings; a byte string is a         *)
(* sequence of byte tokens: an ASCII byte is written as its character, and *)
(* the bytes 0xC3, 0xA9 and 0xFF as "xC3", "xA9" and "xFF".                 *)
(***************************************************************************)
EXTENDS Integers, Sequences, FiniteSets, TLC

VARIABLES
    routes,   \* Router.routes: method -> list of [pattern, handler]
    phase,    \* "startup" while routes are registered, then "serving"
    call,     \* a call of App.__call__ made directly, and its result
    conn,     \* the connections of the server and their handling tasks
    heap,     \* the header mappings callers hand to Response, by identity
    resps,    \* the Response objects constructed so far
    req,      \* a Request under construction and the result
    probe,    \* a template, a path and the result of matching them
    users_db  \* the in-memory store of the demo application: id -> user

appVars == <<routes, phase, call>>

otherVars == <<conn, heap, resps, req, probe, users_db>>

vars == <<routes, phase, call, conn, heap, resps, req, probe, users_db>>

(***************************************************************************)
(* Bounds of the model.                                                    *)
(***************************************************************************)
MaxRoutes == 2
MaxPathLen == 3
NumConns == 2
MaxResponses == 2
MaxBodyLen == 3
MaxSegments == 2
MaxMappings == 1

\* AsyncHTTPServer.MAX_BODY_SIZE, which is 1024 * 1024 in the source: the model
\* passes a small max_body_size so that bodies around it can be written out
MAX_BODY_SIZE == 2
MaxLiteralLen == 2
MaxUsers == 4

(***************************************************************************)
(* Text and byte-string helpers.                                           *)
(***************************************************************************)
\* the argument headers=None of Response, and the argument headers=<mapping>
None == [given |-> FALSE, d |-> <<>>]

Given(d) == [given |-> TRUE, d |-> d]

Max(S) == CHOOSE x \in S : \A y \in S : y <= x

Min(S) == CHOOSE x \in S : \A y \in S : x <= y

SeqsUpTo(A, n) == UNION {[1..k -> A] : k \in 0..n}

RECURSIVE Concat(_)
Concat(ss) == IF ss = <<>> THEN <<>> ELSE Head(ss) \o Concat(Tail(ss))

\* sub in s (Python's substring test)
Contains(sub, s) ==
    \E i \in 0..(Len(s) - Len(sub)) : SubSeq(s, i + 1, i + Len(sub)) = sub

\* index of the first occurrence of character c in s, 0 when there is none
Find(c, s) ==
    IF \E i \in DOMAIN s : s[i] = c THEN Min({i \in DOMAIN s : s[i] = c}) ELSE 0

UpperChars ==
    <<"A", "B", "C", "D", "E", "F", "G", "H", "I", "J", "K", "L", "M", "N", "O", "P", "Q", "R", "S", "T", "U", "V", "W", "X", "Y", "Z">>

LowerChars ==
    <<"a", "b", "c", "d", "e", "f", "g", "h", "i", "j", "k", "l", "m", "n", "o", "p", "q", "r", "s", "t", "u", "v", "w", "x", "y", "z">>

LowerChar(c) ==
    IF \E i \in DOMAIN UpperChars : UpperChars[i] = c
    THEN LowerChars[CHOOSE i \in DOMAIN UpperChars : UpperChars[i] = c]
    ELSE c

\* str.lower()
Lower(s) == [i \in DOMAIN s |-> LowerChar(s[i])]

Whitespace == {" ", "\r", "\n", "\t"}

RECURSIVE LStrip(_)
LStrip(s) == IF s # <<>> /\ Head(s) \in Whitespace THEN LStrip(Tail(s)) ELSE s

RECURSIVE RStrip(_)
RStrip(s) ==
    IF s # <<>> /\ s[Len(s)] \in Whitespace
    THEN RStrip(SubSeq(s, 1, Len(s) - 1))
    ELSE s

\* str.strip()
Strip(s) == LStrip(RStrip(s))

Digits == <<"0", "1", "2", "3", "4", "5", "6", "7", "8", "9">>

IsDigit(c) == \E i \in DOMAIN Digits : Digits[i] = c

DigitVal(c) == (CHOOSE i \in DOMAIN Digits : Digits[i] = c) - 1

\* str(n) for an integer n >= 0
RECURSIVE IntToStr(_)
IntToStr(n) ==
    IF n < 10 THEN <<Digits[n + 1]>> ELSE IntToStr(n \div 10) \o <<Digits[(n % 10) + 1]>>

RECURSIVE DigitsToInt(_)
DigitsToInt(s) ==
    IF s = <<>> THEN 0 ELSE 10 * DigitsToInt(SubSeq(s, 1, Len(s) - 1)) + DigitVal(s[Len(s)])

(***************************************************************************)
(* UTF-8.  The multi-byte character of the model is U+00E9, written "U+E9" *)
(* (bytes 0xC3 0xA9); 0xFF                                                 *)
(* appears in no UTF-8 encoding, and 0xC3 or 0xA9 alone are malformed.     *)
(***************************************************************************)
NonAsciiBytes == {"xC3", "xA9", "xFF"}

\* str.encode('utf-8')
RECURSIVE Utf8Encode(_)
Utf8Encode(s) ==
    IF s = <<>> THEN <<>>
    ELSE (IF Head(s) = "U+E9" THEN <<"xC3", "xA9">> ELSE <<Head(s)>>) \o Utf8Encode(Tail(s))

RECURSIVE Utf8Valid(_)
Utf8Valid(b) ==
    IF b = <<>> THEN TRUE
    ELSE IF Head(b) \notin NonAsciiBytes THEN Utf8Valid(Tail(b))
    ELSE IF Head(b) = "xC3" /\ Len(b) >= 2 /\ b[2] = "xA9" THEN Utf8Valid(Tail(Tail(b)))
    ELSE FALSE

\* bytes.decode('utf-8') of a byte string for which Utf8Valid holds
RECURSIVE Utf8Decode(_)
Utf8Decode(b) ==
    IF b = <<>> THEN <<>>
    ELSE IF Head(b) = "xC3" THEN <<"U+E9">> \o Utf8Decode(Tail(Tail(b)))
    ELSE <<Head(b)>> \o Utf8Decode(Tail(b))

(***************************************************************************)
(* Header names, header values and reason phrases of the source.           *)
(***************************************************************************)
HdrContentType == <<"C", "o", "n", "t", "e", "n", "t", "-", "T", "y", "p", "e">>

HdrContentLength == <<"C", "o", "n", "t", "e", "n", "t", "-", "L", "e", "n", "g", "t", "h">>

KeyContentType == <<"c", "o", "n", "t", "e", "n", "t", "-", "t", "y", "p", "e">>

KeyContentLength == <<"c", "o", "n", "t", "e", "n", "t", "-", "l", "e", "n", "g", "t", "h">>

ApplicationJson == <<"a", "p", "p", "l", "i", "c", "a", "t", "i", "o", "n", "/", "j", "s", "o", "n">>

TextPlain == <<"t", "e", "x", "t", "/", "p", "l", "a", "i", "n">>

ReasonOK == <<"O", "K">>

ReasonNotFound == <<"N", "o", "t", " ", "F", "o", "u", "n", "d">>

ReasonBadRequest == <<"B", "a", "d", " ", "R", "e", "q", "u", "e", "s", "t">>

ReasonWentWrong == <<"S", "o", "m", "e", "t", "h", "i", "n", "g", " ", "w", "e", "n", "t", " ", "w", "r", "o", "n", "g", "!">>

(***************************************************************************)
(* A dict is the sequence of its <<key, value>> items in insertion order.  *)
(***************************************************************************)
EmptyDict == <<>>

DictKeys(d) == {d[i][1] : i \in DOMAIN d}

DictHas(d, k) == \E i \in DOMAIN d : d[i][1] = k

DictGet(d, k) == d[CHOOSE i \in DOMAIN d : d[i][1] = k][2]

DictItems(d) == {d[i] : i \in DOMAIN d}

\* d[k] = v: a present key keeps its place, a new key goes last
DictSet(d, k, v) ==
    IF DictHas(d, k)
    THEN [i \in DOMAIN d |-> IF d[i][1] = k THEN <<k, v>> ELSE d[i]]
    ELSE Append(d, <<k, v>>)

(***************************************************************************)
(* json.dumps of the structured bodies of the model: a list of             *)
(* one-character strings, or a dict given as <<k1, v1, k2, v2, ...>> of    *)
(* one-character keys and values.  ensure_ascii escapes U+00E9.            *)
(***************************************************************************)
JsonString(c) ==
    IF c = "U+E9" THEN <<"\"", "\\", "u", "0", "0", "e", "9", "\"">> ELSE <<"\"", c, "\"">>

RECURSIVE JsonListItems(_)
JsonListItems(v) ==
    IF v = <<>> THEN <<>>
    ELSE IF Len(v) = 1 THEN JsonString(v[1])
    ELSE JsonString(v[1]) \o <<",", " ">> \o JsonListItems(Tail(v))

RECURSIVE JsonDictItems(_)
JsonDictItems(v) ==
    IF Len(v) < 2 THEN <<>>
    ELSE IF Len(v) = 2 THEN JsonString(v[1]) \o <<":", " ">> \o JsonString(v[2])
    ELSE JsonString(v[1]) \o <<":", " ">> \o JsonString(v[2]) \o <<",", " ">>
         \o JsonDictItems(Tail(Tail(v)))

JsonDumps(body) ==
    IF body.t = "list" THEN <<"[">> \o JsonListItems(body.v) \o <<"]">>
    ELSE <<"{">> \o JsonDictItems(body.v) \o <<"}">>

(***************************************************************************)
(* Response.__init__.  `body` is [t |-> "bytes" | "str" | "list" | "dict", *)
(* v |-> value]; `headers` is the content of the caller's mapping at the   *)
(* time of the call, or None.  The result's headers are the content that   *)
(* mapping has when the constructor returns (it is the caller's object,    *)
(* assigned by reference).                                                 *)
(***************************************************************************)
ResponseBody(body) ==
    IF body.t = "str" THEN Utf8Encode(body.v)
    ELSE IF body.t \in {"list", "dict"} THEN Utf8Encode(JsonDumps(body))
    ELSE body.v

ResponseHeaders(body, headers, content_type) ==
    LET h0 == IF headers.given THEN headers.d ELSE EmptyDict
        h1 == IF KeyContentType \notin {Lower(k) : k \in DictKeys(h0)}
              THEN DictSet(h0, HdrContentType, content_type)
              ELSE h0
        h2 == IF body.t \in {"list", "dict"}
              THEN DictSet(h1, HdrContentType, ApplicationJson)
              ELSE h1
    IN  DictSet(h2, HdrContentLength, IntToStr(Len(ResponseBody(body))))

ResponseInit(body, status_code, reason_phrase, headers, content_type) ==
    [body |-> ResponseBody(body),
     status_code |-> status_code,
     reason_phrase |-> reason_phrase,
     headers |-> ResponseHeaders(body, headers, content_type)]

(***************************************************************************)
(* Router._add_route: re.sub turns every {identifier} of the template into *)
(* the named group (?P<identifier>[^/]+); every other character of the     *)
(* template stays in the pattern as written and so keeps its meaning as a  *)
(* regular expression.  A compiled pattern is a sequence of atoms          *)
(*   [k |-> "chr", v |-> <<c>>]   the character c                          *)
(*   [k |-> "dot", v |-> <<".">>] any character but a newline              *)
(*   [k |-> "grp", v |-> name]    (?P<name>[^/]+)                          *)
(* between the anchors ^ and $.  The templates of the model are written    *)
(* over TemplateChars, in which "." is the one character that is special   *)
(* in a regular expression outside a placeholder.                          *)
(***************************************************************************)
IdentStart == {"a", "b", "u", "_"}

IdentChar == IdentStart \cup {"0", "1"}

\* the index of the "}" closing the placeholder that starts at path[i], or 0
PlaceholderEnd(path, i) ==
    IF path[i] = "{" /\ i + 1 <= Len(path) /\ path[i + 1] \in IdentStart
    THEN LET stops == {j \in (i + 2)..Len(path) : path[j] \notin IdentChar}
             j == IF stops = {} THEN 0 ELSE Min(stops)
         IN  IF j # 0 /\ path[j] = "}" THEN j ELSE 0
    ELSE 0

RECURSIVE SubPlaceholders(_, _)
SubPlaceholders(path, i) ==
    IF i > Len(path) THEN <<>>
    ELSE LET j == PlaceholderEnd(path, i)
         IN  IF j # 0
             THEN <<[k |-> "grp", v |-> SubSeq(path, i + 1, j - 1)]>>
                  \o SubPlaceholders(path, j + 1)
             ELSE <<[k |-> IF path[i] = "." THEN "dot" ELSE "chr", v |-> <<path[i]>>]>>
                  \o SubPlaceholders(path, i + 1)

Pattern(path) == SubPlaceholders(path, 1)

GroupNames(pattern) == {pattern[i].v : i \in {n \in DOMAIN pattern : pattern[n].k = "grp"}}

\* re.compile raises re.error when a group name is defined twice
CompileFails(pattern) ==
    \E i, j \in DOMAIN pattern :
        i # j /\ pattern[i].k = "grp" /\ pattern[j].k = "grp" /\ pattern[i].v = pattern[j].v

NoMatch == [ok |-> FALSE, groups |-> EmptyDict]

\* the length of the longest prefix of s without a "/"
SegmentRun(s) ==
    IF \E i \in DOMAIN s : s[i] = "/" THEN Find("/", s) - 1 ELSE Len(s)

(***************************************************************************)
(* pattern.match(path) for the pattern ^...$: the backtracking matcher.    *)
(* A group is greedy: it takes the longest run that lets the rest match.   *)
(* $ matches at the end of the text and before a newline that ends it.     *)
(***************************************************************************)
RECURSIVE MatchFrom(_, _, _)
MatchFrom(pattern, s, groups) ==
    IF pattern = <<>>
    THEN IF s = <<>> \/ s = <<"\n">> THEN [ok |-> TRUE, groups |-> groups] ELSE NoMatch
    ELSE LET atom == Head(pattern)
         IN  IF atom.k = "chr"
             THEN IF s # <<>> /\ Head(s) = atom.v[1]
                  THEN MatchFrom(Tail(pattern), Tail(s), groups)
                  ELSE NoMatch
             ELSE IF atom.k = "dot"
             THEN IF s # <<>> /\ Head(s) # "\n"
                  THEN MatchFrom(Tail(pattern), Tail(s), groups)
                  ELSE NoMatch
             ELSE LET good == {n \in 1..SegmentRun(s) :
                                  MatchFrom(Tail(pattern), SubSeq(s, n + 1, Len(s)),
                                            DictSet(groups, atom.v, SubSeq(s, 1, n))).ok}
                  IN  IF good = {} THEN NoMatch
                      ELSE MatchFrom(Tail(pattern), SubSeq(s, Max(good) + 1, Len(s)),
                                     DictSet(groups, atom.v, SubSeq(s, 1, Max(good))))

\* match = pattern.match(request.path); match.groupdict()
Match(pattern, path) == MatchFrom(pattern, path, EmptyDict)

AddRoute(rt, method, path, handler) ==
    LET entry == [pattern |-> Pattern(path), handler |-> handler]
    IN  DictSet(rt, method, Append(IF DictHas(rt, method) THEN DictGet(rt, method) ELSE <<>>,
                                   entry))

(***************************************************************************)
(* json.loads on the JSON texts the model's request bodies can spell:      *)
(* numbers written with the digit 1, arrays, the empty object, and         *)
(* whitespace.  The decoded value is represented by its canonical text     *)
(* (the tokens without whitespace).                                        *)
(***************************************************************************)
JsonFail == [ok |-> FALSE, rest |-> <<>>, val |-> <<>>]

RECURSIVE OnesRun(_)
OnesRun(s) == IF s # <<>> /\ Head(s) = "1" THEN 1 + OnesRun(Tail(s)) ELSE 0

RECURSIVE ParseValue(_)
RECURSIVE ParseItems(_, _)
ParseValue(s) ==
    IF s = <<>> THEN JsonFail
    ELSE IF Head(s) = "1"
    THEN [ok |-> TRUE, rest |-> SubSeq(s, OnesRun(s) + 1, Len(s)), val |-> SubSeq(s, 1, OnesRun(s))]
    ELSE IF Head(s) = "{"
    THEN LET r == LStrip(Tail(s))
         IN  IF r # <<>> /\ Head(r) = "}"
             THEN [ok |-> TRUE, rest |-> Tail(r), val |-> <<"{", "}">>]
             ELSE JsonFail
    ELSE IF Head(s) = "["
    THEN LET r == LStrip(Tail(s))
         IN  IF r # <<>> /\ Head(r) = "]"
             THEN [ok |-> TRUE, rest |-> Tail(r), val |-> <<"[", "]">>]
             ELSE ParseItems(r, <<"[">>)
    ELSE JsonFail

ParseItems(s, acc) ==
    LET item == ParseValue(s)
        r == LStrip(item.rest)
    IN  IF ~item.ok \/ r = <<>> THEN JsonFail
        ELSE IF Head(r) = "," THEN ParseItems(LStrip(Tail(r)), acc \o item.val \o <<",">>)
        ELSE IF Head(r) = "]"
        THEN [ok |-> TRUE, rest |-> Tail(r), val |-> acc \o item.val \o <<"]">>]
        ELSE JsonFail

\* json.loads(text): ok = FALSE stands for json.JSONDecodeError
JsonLoads(text) ==
    LET v == ParseValue(LStrip(text))
    IN  IF v.ok /\ LStrip(v.rest) = <<>> THEN [ok |-> TRUE, val |-> v.val]
        ELSE [ok |-> FALSE, val |-> <<>>]

(***************************************************************************)
(* Request.__init__(scope).  scope.headers is the list of (name, value)    *)
(* pairs; a later pair overrides an earlier one with the same name.  The   *)
(* only exception the constructor catches is json.JSONDecodeError; a body  *)
(* that is not UTF-8 makes body.decode raise UnicodeDecodeError.           *)
(***************************************************************************)
RECURSIVE HeadersDict(_)
HeadersDict(pairs) ==
    IF pairs = <<>> THEN EmptyDict
    ELSE DictSet(HeadersDict(SubSeq(pairs, 1, Len(pairs) - 1)),
                 pairs[Len(pairs)][1], pairs[Len(pairs)][2])

JsonNone == [present |-> FALSE, val |-> <<>>]

IsJsonRequest(headers) ==
    DictHas(headers, KeyContentType) /\ Contains(ApplicationJson, DictGet(headers, KeyContentType))

RequestJson(headers, body) ==
    IF IsJsonRequest(headers) /\ Utf8Valid(body) /\ JsonLoads(Utf8Decode(body)).ok
    THEN [present |-> TRUE, val |-> JsonLoads(Utf8Decode(body)).val]
    ELSE JsonNone

RequestInit(scope) ==
    LET headers == HeadersDict(scope.headers)
    IN  [exc |-> IF IsJsonRequest(headers) /\ ~Utf8Valid(scope.body)
                 THEN "UnicodeDecodeError" ELSE "",
         path |-> scope.path,
         method |-> scope.method,
         headers |-> headers,
         body |-> scope.body,
         path_params |-> EmptyDict,
         json |-> RequestJson(headers, scope.body)]

(***************************************************************************)
(* Handlers are the application's: the core only awaits them.  A handler   *)
(* either raises or returns Response(<its body>, content_type=             *)
(* "application/json") as the handlers of app.py do.                       *)
(***************************************************************************)
Handlers == {"H1", "H2", "H3"}

HandlerBody(h) ==
    IF h = "H1" THEN [t |-> "dict", v |-> <<"h", "1">>]
    ELSE IF h = "H2" THEN [t |-> "str", v |-> <<"h", "U+E9">>]
    ELSE [t |-> "bytes", v |-> <<"h", "xFF">>]

HandlerResponse(h) == ResponseInit(HandlerBody(h), 200, ReasonOK, None, ApplicationJson)

NoResponse == [body |-> <<>>, status_code |-> 0, reason_phrase |-> <<>>, headers |-> EmptyDict]

(***************************************************************************)
(* Router.dispatch(request).  `raises` says whether the handler that gets  *)
(* invoked raises.  The result names the handlers invoked, in order, and   *)
(* the path_params the invoked handler saw on the request.                 *)
(***************************************************************************)
RECURSIVE DispatchLoop(_, _, _, _)
DispatchLoop(list, i, request, raises) ==
    IF i > Len(list)
    THEN [exc |-> "", invoked |-> <<>>, path_params |-> EmptyDict,
          response |-> ResponseInit([t |-> "str", v |-> <<>>], 404, ReasonNotFound, None,
                                    ApplicationJson)]
    ELSE LET match == Match(list[i].pattern, request.path)
         IN  IF match.ok
             THEN [exc |-> IF raises THEN "HandlerError" ELSE "",
                   invoked |-> <<list[i].handler>>,
                   path_params |-> match.groups,
                   response |-> IF raises THEN NoResponse
                                ELSE HandlerResponse(list[i].handler)]
             ELSE DispatchLoop(list, i + 1, request, raises)

Reverse(list) == [i \in DOMAIN list |-> list[Len(list) + 1 - i]]

RECURSIVE AllRoutes(_)
AllRoutes(rt) == IF rt = <<>> THEN <<>> ELSE Head(rt)[2] \o AllRoutes(Tail(rt))

\* a dispatch that tries the routes of every method
DispatchAnyMethod(rt, request, raises) ==
    DispatchLoop(AllRoutes(rt), 1, request, raises)

\* a dispatch that tries the routes latest first
DispatchLatestFirst(rt, request, raises) ==
    DispatchLoop(IF DictHas(rt, request.method) THEN Reverse(DictGet(rt, request.method))
                 ELSE <<>>,
                 1, request, raises)

Dispatch(rt, request, raises) ==
    DispatchLoop(IF DictHas(rt, request.method) THEN DictGet(rt, request.method) ELSE <<>>,
                 1, request, raises)

(***************************************************************************)
(* App.__call__(scope).  kind = "dict" is the returned mapping (status     *)
(* code, reason phrase, headers, body), "none" is a return without a value *)
(* (the branch for a type other than "http" builds a mapping and falls off *)
(* the end of the function), "exc" is an exception leaving the call.       *)
(***************************************************************************)
TypeHttp == <<"h", "t", "t", "p">>

\* an entry point that turns a failure of the handler into a 500 result
AppCallCatching(rt, scope, raises) ==
    LET d == Dispatch(rt, RequestInit(scope), raises)
    IN  [kind |-> "dict", exc |-> "", routed |-> TRUE, invoked |-> d.invoked,
         path_params |-> d.path_params,
         response |-> IF d.exc # ""
                      THEN ResponseInit([t |-> "str", v |-> <<>>], 500, ReasonWentWrong, None,
                                        ApplicationJson)
                      ELSE d.response]

AppCall(rt, scope, raises) ==
    IF scope.type = TypeHttp
    THEN LET request == RequestInit(scope)
             d == Dispatch(rt, request, raises)
         IN  IF request.exc # ""
             THEN [kind |-> "exc", exc |-> request.exc, routed |-> FALSE, invoked |-> <<>>,
                   path_params |-> EmptyDict, response |-> NoResponse]
             ELSE [kind |-> IF d.exc # "" THEN "exc" ELSE "dict", exc |-> d.exc,
                   routed |-> TRUE, invoked |-> d.invoked, path_params |-> d.path_params,
                   response |-> d.response]
    ELSE [kind |-> "none", exc |-> "", routed |-> FALSE, invoked |-> <<>>,
          path_params |-> EmptyDict, response |-> NoResponse]

(***************************************************************************)
(* HttpHandler.send_http_response(status_code, reason_phrase, headers,     *)
(* body).  `body` is [t |-> "str" | "bytes", v |-> value]: the default is  *)
(* the str "", the application's responses carry bytes.  With headers None *)
(* the function calls body.encode, which bytes do not have; it always      *)
(* calls body.decode, which a str does not have.  `drains` says whether    *)
(* writer.drain() returns (it raises when the peer has reset the           *)
(* connection).  The result tells what reached the writer: `wrote` is the  *)
(* sequence of byte strings passed to writer.write, `closed` whether       *)
(* writer.close() was called.                                              *)
(***************************************************************************)
DefaultBody == [t |-> "str", v |-> <<>>]

CRLF == <<"\r", "\n">>

RECURSIVE HeaderLines(_)
HeaderLines(headers) ==
    IF headers = <<>> THEN <<>>
    ELSE Head(headers)[1] \o <<":", " ">> \o Head(headers)[2] \o CRLF
         \o HeaderLines(Tail(headers))

\* "\r\n".join([status line, header lines..., "", body text])
ResponseText(status_code, reason_phrase, headers, text) ==
    <<"H", "T", "T", "P", "/", "1", ".", "1", " ">> \o IntToStr(status_code) \o <<" ">>
    \o reason_phrase \o CRLF \o HeaderLines(headers) \o CRLF \o text

SendFails(exc) == [exc |-> exc, wrote |-> <<>>, closed |-> FALSE]

\* a send that skips the body.decode() of line 113: a str body is written as it is
SendHttpResponseAnyBody(status_code, reason_phrase, headers, body, drains) ==
    LET hs == IF headers.given THEN headers.d
              ELSE <<<<HdrContentType, TextPlain>>,
                     <<HdrContentLength, IntToStr(Len(Utf8Encode(body.v)))>>>>
    IN  [exc |-> IF drains THEN "" ELSE "ConnectionResetError",
         wrote |-> <<Utf8Encode(ResponseText(status_code, reason_phrase, hs, body.v))>>,
         closed |-> drains]

SendHttpResponse(status_code, reason_phrase, headers, body, drains) ==
    IF ~headers.given /\ body.t # "str" THEN SendFails("AttributeError")
    ELSE IF body.t # "bytes" THEN SendFails("AttributeError")
    ELSE IF ~Utf8Valid(body.v) THEN SendFails("UnicodeDecodeError")
    ELSE LET hs == IF headers.given THEN headers.d
                   ELSE <<<<HdrContentType, TextPlain>>,
                          <<HdrContentLength, IntToStr(Len(Utf8Encode(body.v)))>>>>
         IN  [exc |-> IF drains THEN "" ELSE "ConnectionResetError",
              wrote |-> <<Utf8Encode(ResponseText(status_code, reason_phrase, hs,
                                                  Utf8Decode(body.v)))>>,
              closed |-> drains]

(***************************************************************************)
(* HttpHandler.parse_http_request(max_body_size) on a stream whose bytes   *)
(* have all arrived and that the client has then closed: StreamReader      *)
(* .readline returns the bytes up to and including the next "\n", or what  *)
(* is left at the end of the stream; readexactly(n) raises                 *)
(* IncompleteReadError when fewer than n bytes are left and ValueError     *)
(* when n < 0.                                                             *)
(***************************************************************************)
\* the end position of the line that starts after position pos
LineEnd(stream, pos) ==
    LET ends == {i \in (pos + 1)..Len(stream) : stream[i] = "\n"}
    IN  IF ends = {} THEN Len(stream) ELSE Min(ends)

ReadLine(stream, pos) == SubSeq(stream, pos + 1, LineEnd(stream, pos))

\* s.split(sep, maxsplit)
RECURSIVE Split(_, _, _)
Split(s, sep, maxsplit) ==
    IF maxsplit = 0 \/ Find(sep, s) = 0 THEN <<s>>
    ELSE <<SubSeq(s, 1, Find(sep, s) - 1)>>
         \o Split(SubSeq(s, Find(sep, s) + 1, Len(s)), sep, maxsplit - 1)

\* int(s) for a text without surrounding whitespace: ok = FALSE is ValueError
IntParse(s) ==
    LET signed == s # <<>> /\ Head(s) \in {"+", "-"}
        digits == IF signed THEN Tail(s) ELSE s
    IN  IF digits # <<>> /\ \A i \in DOMAIN digits : IsDigit(digits[i])
        THEN [ok |-> TRUE,
              val |-> IF signed /\ Head(s) = "-" THEN 0 - DigitsToInt(digits)
                      ELSE DigitsToInt(digits)]
        ELSE [ok |-> FALSE, val |-> 0]

(***************************************************************************)
(* urlparse(target): .path and .query.  The targets of the model are       *)
(* written without ":" and ";" (no scheme, no parameters); a target that   *)
(* starts with "//" names a network location, which is not part of the     *)
(* path.                                                                   *)
(***************************************************************************)
CutAt(s, c) == IF Find(c, s) = 0 THEN s ELSE SubSeq(s, 1, Find(c, s) - 1)

AfterNetloc(s) ==
    IF Len(s) >= 2 /\ s[1] = "/" /\ s[2] = "/"
    THEN LET rest == SubSeq(s, 3, Len(s))
             stops == {i \in DOMAIN rest : rest[i] \in {"/", "?", "#"}}
         IN  IF stops = {} THEN <<>> ELSE SubSeq(rest, Min(stops), Len(rest))
    ELSE s

UrlPath(target) == CutAt(CutAt(AfterNetloc(target), "#"), "?")

UrlQuery(target) ==
    LET u == CutAt(AfterNetloc(target), "#")
    IN  IF Find("?", u) = 0 THEN <<>> ELSE SubSeq(u, Find("?", u) + 1, Len(u))

\* the header loop of lines 59-65: ok = FALSE is the ValueError of the unpacking
\* (a line without ":") or the UnicodeDecodeError of line.decode()
RECURSIVE ReadHeaders(_, _, _)
ReadHeaders(stream, pos, headers) ==
    LET line == ReadLine(stream, pos)
        parts == Split(Strip(Utf8Decode(line)), ":", 1)
    IN  IF line = <<>> \/ line = CRLF
        THEN [ok |-> TRUE, pos |-> pos + Len(line), headers |-> headers, terminated |-> line = CRLF]
        ELSE IF ~Utf8Valid(line) \/ Len(parts) # 2
        THEN [ok |-> FALSE, pos |-> pos + Len(line), headers |-> headers, terminated |-> FALSE]
        ELSE ReadHeaders(stream, pos + Len(line),
                         DictSet(headers, Lower(parts[1]), Strip(parts[2])))

\* a check that also refuses a body of exactly max_body_size bytes
BodyTooLargeFromMax(content_length, max_body_size) == content_length >= max_body_size

\* the check of line 72
BodyTooLarge(content_length, max_body_size) == content_length > max_body_size

NoScope == [type |-> <<>>, method |-> <<>>, path |-> <<>>, query_string |-> <<>>,
            http_version |-> <<>>, headers |-> <<>>, body |-> <<>>]

\* a failure inside the try block: the handler of line 91 sends a 400, and the
\* failure of that send leaves parse_http_request
ParseFails(why, pos, sendsBefore) ==
    LET send == SendHttpResponse(400, ReasonBadRequest, None, DefaultBody, TRUE)
    IN  [kind |-> IF send.exc # "" THEN "exc" ELSE "none",
         why |-> why, pos |-> pos, bodyRead |-> 0, scope |-> NoScope,
         sends |-> sendsBefore \o <<send>>,
         exc |-> send.exc]

ParseHttpRequest(stream, max_body_size) ==
    LET request_line == ReadLine(stream, 0)
        p1 == Len(request_line)
        parts == Split(Strip(Utf8Decode(request_line)), " ", 2)
        hs == ReadHeaders(stream, p1, EmptyDict)
        declared == DictHas(hs.headers, KeyContentLength)
        content_length == IntParse(DictGet(hs.headers, KeyContentLength))
        left == Len(stream) - hs.pos
        early == SendHttpResponse(400, ReasonBadRequest, None, DefaultBody, TRUE)
    IN  IF request_line = <<>>
        THEN IF early.exc # "" THEN ParseFails("EmptyStream", 0, <<early>>)
             ELSE [kind |-> "none", why |-> "EmptyStream", pos |-> 0, bodyRead |-> 0,
                   scope |-> NoScope, sends |-> <<early>>, exc |-> ""]
        ELSE IF ~Utf8Valid(request_line) THEN ParseFails("UndecodableRequestLine", p1, <<>>)
        ELSE IF Len(parts) # 3 THEN ParseFails("MalformedRequestLine", p1, <<>>)
        ELSE IF ~hs.ok THEN ParseFails("MalformedHeader", hs.pos, <<>>)
        ELSE IF declared /\ ~content_length.ok
        THEN ParseFails("BadContentLength", hs.pos, <<>>)
        ELSE IF declared /\ BodyTooLarge(content_length.val, max_body_size)
        THEN IF early.exc # "" THEN ParseFails("BodyTooLarge", hs.pos, <<early>>)
             ELSE [kind |-> "none", why |-> "BodyTooLarge", pos |-> hs.pos, bodyRead |-> 0,
                   scope |-> NoScope, sends |-> <<early>>, exc |-> ""]
        ELSE IF declared /\ content_length.val < 0
        THEN ParseFails("NegativeContentLength", hs.pos, <<>>)
        ELSE IF declared /\ content_length.val > left
        THEN [ParseFails("TruncatedBody", Len(stream), <<>>) EXCEPT !.bodyRead = left]
        ELSE LET n == IF declared THEN content_length.val ELSE 0
             IN  [kind |-> "scope", why |-> "", pos |-> hs.pos + n, bodyRead |-> n,
                  scope |-> [type |-> TypeHttp,
                             http_version |-> parts[3],
                             method |-> parts[1],
                             path |-> UrlPath(parts[2]),
                             query_string |-> Utf8Encode(UrlQuery(parts[2])),
                             headers |-> hs.headers,
                             body |-> SubSeq(stream, hs.pos + 1, hs.pos + n)],
                  sends |-> <<>>, exc |-> ""]

(***************************************************************************)
(* Inputs of the model.                                                    *)
(***************************************************************************)
GET == <<"G", "E", "T">>

POST == <<"P", "O", "S", "T">>

Methods == {GET, POST}

\* /u   /{a}   /u/{a}   /{a}/{b}   and /{a}/{a}, which re.compile rejects
Templates ==
    {<<"/", "u">>,
     <<"/", "{", "a", "}">>,
     <<"/", "u", "/", "{", "a", "}">>,
     <<"/", "{", "a", "}", "/", "{", "b", "}">>,
     <<"/", "{", "a", "}", "/", "{", "a", "}">>,
     <<"/", "{", "}">>,
     <<"/", "{", "1", "a", "}">>}

\* /   /u   /b   /u/b   /u/b/u
AppPaths ==
    {<<"/">>, <<"/", "u">>, <<"/", "b">>, <<"/", "u", "/", "b">>,
     <<"/", "u", "/", "b", "/", "u">>}

JsonContentType == <<<<KeyContentType, ApplicationJson>>>>

\* (headers, body) of the scopes handed to the application directly
AppPayloads ==
    {<<<<>>, <<>>>>, <<JsonContentType, <<"[", "1", "]">>>>, <<JsonContentType, <<"xFF">>>>}

TypeWebsocket == <<"w", "s">>

(***************************************************************************)
(* The demo application (app.py): users_db maps an id to a user record.    *)
(***************************************************************************)
UserRecord(id, name) == [id |-> id, name |-> name]

\* users_db as the module defines it: the users "1" and "2"
InitialUsers ==
    <<<<IntToStr(1), UserRecord(IntToStr(1), "mayur")>>,
      <<IntToStr(2), UserRecord(IntToStr(2), "admin")>>>>

\* del users_db[user_id]
DictDel(d, key) == SelectSeq(d, LAMBDA e : e[1] # key)

\* request.json of a POST /users: absent or invalid (None), {}, or {"name": n}
JsonPayloads ==
    {[given |-> FALSE, name |-> ""], [given |-> TRUE, name |-> ""],
     [given |-> TRUE, name |-> "x"], [given |-> TRUE, name |-> "y"]}

\* `if request.json:` a dict is truthy when it is not empty
Truthy(json) == json.given /\ json.name # ""

\* new_id = str(len(users_db) + 1)
NewId(db) == IntToStr(Len(db) + 1)

\* the ids a DELETE /users/{user_id} may name
UserIds == {IntToStr(n) : n \in 1..(MaxUsers + 1)}

NoCall == [made |-> FALSE]

NoApp == [kind |-> "", exc |-> "", routed |-> FALSE, invoked |-> <<>>,
          path_params |-> EmptyDict, response |-> NoResponse]

NoParse == [kind |-> "", why |-> "", exc |-> ""]

Conns == 1..NumConns

(***************************************************************************)
(* A connection and the task that runs __handle_request for it:            *)
(*   pc      "none" (not connected), "accepted" (task created), "parsed"   *)
(*           (a scope was returned), "draining" (the response was handed   *)
(*           to writer.write; awaiting writer.drain()), "done" (the task   *)
(*           returned), "failed" (an exception left the task)              *)
(*   stream  the bytes the client sends before it closes its side          *)
(*   pos     the number of bytes read from the stream                      *)
(*   wrote   the byte strings passed to writer.write, in order             *)
(*   closed  "server" once the code has called writer.close(); "runtime"   *)
(*           when asyncio closed the transport of a failed task; else "no" *)
(*   parses, calls, sends   how often parse_http_request, the application  *)
(*           and send_http_response were called                            *)
(*   exc     the exception that left the task                              *)
(*   reset   the peer reset the connection while the response was flushed  *)
(***************************************************************************)
IdleConn ==
    [pc |-> "none", stream |-> <<>>, pos |-> 0, parse |-> NoParse, scope |-> NoScope,
     app |-> NoApp, raises |-> FALSE, wrote |-> <<>>, closed |-> "no", parses |-> 0,
     calls |-> 0, sends |-> 0, exc |-> "", reset |-> FALSE]

NoReq == [made |-> FALSE]

NoProbe == [made |-> FALSE]

RECURSIVE RouteCount(_)
RouteCount(rt) == IF rt = <<>> THEN 0 ELSE Len(Head(rt)[2]) + RouteCount(Tail(rt))

(***************************************************************************)
(* Route registration (the decorators of Router, run while the             *)
(* application module is loaded, before the server listens).               *)
(***************************************************************************)
Register(method, path, handler) ==
    /\ phase = "startup"
    /\ RouteCount(routes) < MaxRoutes
    /\ ~CompileFails(Pattern(path))
    /\ routes' = AddRoute(routes, method, path, handler)
    /\ UNCHANGED <<phase, call, otherVars>>

\* re.compile raises: the decorator does not return and nothing is appended
RegisterRaises(method, path, handler) ==
    /\ phase = "startup"
    /\ CompileFails(Pattern(path))
    /\ UNCHANGED vars

Serve ==
    /\ phase = "startup"
    /\ phase' = "serving"
    /\ UNCHANGED <<routes, call, otherVars>>

(***************************************************************************)
(* A call of the application object with a scope, as the server makes it.  *)
(* The call is a function of the route table, the scope and the handler's  *)
(* behaviour, and leaves the application as it was: one call is recorded.  *)
(***************************************************************************)
DirectCall(type, method, path, payload, raises) ==
    /\ phase = "serving"
    /\ call = NoCall
    /\ LET scope == [type |-> type, method |-> method, path |-> path,
                     headers |-> payload[1], body |-> payload[2]]
       IN  call' = [made |-> TRUE, scope |-> scope, raises |-> raises,
                    result |-> AppCall(routes, scope, raises)]
    /\ UNCHANGED <<routes, phase, otherVars>>

InitCommon ==
    /\ routes = EmptyDict
    /\ users_db = InitialUsers
    /\ phase = "startup"
    /\ conn = [c \in Conns |-> IdleConn]
    /\ call = NoCall
    /\ heap = <<>>
    /\ resps = <<>>
    /\ req = NoReq
    /\ probe = NoProbe

InitApp == InitCommon

NextApp ==
    \/ \E m \in Methods, t \in Templates, h \in {"H1", "H2"} : Register(m, t, h)
    \/ \E m \in Methods, t \in Templates, h \in {"H1", "H2"} : RegisterRaises(m, t, h)
    \/ Serve
    \/ \E type \in {TypeHttp, TypeWebsocket}, m \in Methods, p \in AppPaths,
          payload \in AppPayloads, raises \in BOOLEAN :
            DirectCall(type, m, p, payload, raises)

SpecApp == InitApp /\ [][NextApp]_vars

(***************************************************************************)
(* Properties of the application entry point and of route resolution       *)
(* (SpecApp).                                                              *)
(***************************************************************************)
RoutesOf(method) == IF DictHas(routes, method) THEN DictGet(routes, method) ELSE <<>>

\* the indexes of the routes registered under `method` that match `path`
Matching(method, path) ==
    {i \in DOMAIN RoutesOf(method) : Match(RoutesOf(method)[i].pattern, path).ok}

\* the recorded call was routed: an http scope from which a Request was built
Routed == call.made /\ call.result.routed

HandlerRaised == Routed /\ call.result.invoked # <<>> /\ call.raises

C5_OwnMethodOnly ==
    (Routed /\ Matching(call.scope.method, call.scope.path) = {})
        => /\ call.result.kind = "dict"
           /\ call.result.response.status_code = 404
           /\ call.result.response.reason_phrase = ReasonNotFound
           /\ call.result.invoked = <<>>

\* the path is registered under another method only
C5_Witness ==
    /\ Routed
    /\ Matching(call.scope.method, call.scope.path) = {}
    /\ \E m \in DictKeys(routes) : Matching(m, call.scope.path) # {}
    /\ call.result.response.status_code = 404

\* C6: when several routes registered under the request's method match the
\* path, exactly one handler is invoked, that of the route registered
\* earliest among them.
C6_FirstMatchWins ==
    (Routed /\ Matching(call.scope.method, call.scope.path) # {})
        => call.result.invoked =
             <<RoutesOf(call.scope.method)[Min(Matching(call.scope.method,
                                                        call.scope.path))].handler>>

\* two routes with different handlers match, and the later one is not invoked
C6_Witness ==
    /\ Routed
    /\ \E i, j \in Matching(call.scope.method, call.scope.path) :
          /\ i < j
          /\ RoutesOf(call.scope.method)[i].handler # RoutesOf(call.scope.method)[j].handler
          /\ call.result.invoked = <<RoutesOf(call.scope.method)[i].handler>>

(***************************************************************************)
(* Matching a registered template against a path (SpecMatch).  The         *)
(* templates are all sequences of at most MaxSegments segments, each a     *)
(* literal over LiteralChars or a placeholder; the paths are all texts of  *)
(* at most MaxPathLen characters over PathChars.                           *)
(***************************************************************************)
LiteralChars == {"u", "."}

PathChars == {"/", "u", "."}

Literals == {s \in SeqsUpTo(LiteralChars, MaxLiteralLen) : s # <<>>}

Placeholders == {<<"a">>, <<"b">>}

\* a segment of a template: a literal text or a placeholder name
Segments ==
    [k : {"lit"}, v : Literals] \cup [k : {"par"}, v : Placeholders]

SegmentText(seg) == IF seg.k = "par" THEN <<"{">> \o seg.v \o <<"}">> ELSE seg.v

RECURSIVE TemplateText(_)
TemplateText(segs) ==
    IF segs = <<>> THEN <<>>
    ELSE <<"/">> \o SegmentText(Head(segs)) \o TemplateText(Tail(segs))

SegmentLists == {t \in SeqsUpTo(Segments, MaxSegments) : t # <<>>}

InitMatch ==
    /\ routes = EmptyDict
    /\ users_db = InitialUsers
    /\ phase = "startup"
    /\ call = NoCall
    /\ conn = [c \in Conns |-> IdleConn]
    /\ heap = <<>>
    /\ resps = <<>>
    /\ req = NoReq
    /\ \E segs \in SegmentLists, path \in SeqsUpTo(PathChars, MaxPathLen) :
          probe = [made |-> FALSE, segs |-> segs, path |-> path]

\* _add_route(method, template, handler) followed by pattern.match(path)
MatchRoute ==
    /\ ~probe.made
    /\ ~CompileFails(Pattern(TemplateText(probe.segs)))
    /\ probe' = [made |-> TRUE, segs |-> probe.segs, path |-> probe.path,
                 match |-> Match(Pattern(TemplateText(probe.segs)), probe.path)]
    /\ UNCHANGED <<appVars, conn, heap, resps, req, users_db>>

NextMatch == MatchRoute

SpecMatch == InitMatch /\ [][NextMatch]_vars

\* the segments of a path that starts with "/": the texts between the "/"
RECURSIVE SplitSegments(_)
SplitSegments(path) ==
    IF path = <<>> THEN <<>>
    ELSE LET rest == Tail(path)
             n == SegmentRun(rest)
         IN  <<SubSeq(rest, 1, n)>> \o SplitSegments(SubSeq(rest, n + 1, Len(rest)))

\* the match the specification describes, segment by segment
SegmentwiseMatch(segs, path) ==
    /\ path # <<>>
    /\ Head(path) = "/"
    /\ Len(SplitSegments(path)) = Len(segs)
    /\ \A i \in DOMAIN segs :
          IF segs[i].k = "lit" THEN SplitSegments(path)[i] = segs[i].v
          ELSE SplitSegments(path)[i] # <<>>

SegmentwiseParams(segs, path) ==
    {<<segs[i].v, SplitSegments(path)[i]>> : i \in {j \in DOMAIN segs : segs[j].k = "par"}}

\* C7: a template matches a path exactly when both have the same number of
\* segments, every literal segment equals the path's segment character for
\* character and every placeholder's segment is non-empty; on a match the
\* path parameters bind every placeholder name to exactly that segment.
C7_SegmentwiseMatch ==
    probe.made =>
        /\ probe.match.ok <=> SegmentwiseMatch(probe.segs, probe.path)
        /\ probe.match.ok =>
              DictItems(probe.match.groups) = SegmentwiseParams(probe.segs, probe.path)

(***************************************************************************)
(* Constructing Response objects (SpecResp).  heap[i] is the content of    *)
(* the i-th mapping object; a Response holds the identity of its headers   *)
(* mapping: Response.__init__ keeps the caller's mapping when one is       *)
(* given (self.headers = headers) and writes its headers into it.          *)
(***************************************************************************)
CallerMappings ==
    {EmptyDict,
     <<<<KeyContentType, TextPlain>>>>,
     <<<<HdrContentLength, <<"9">>>>>>}

ResponseBodies ==
    {[t |-> "bytes", v |-> <<>>],
     [t |-> "bytes", v |-> <<"a", "xFF">>],
     [t |-> "str", v |-> <<"a">>],
     [t |-> "str", v |-> <<"U+E9">>],
     [t |-> "list", v |-> <<"a", "U+E9">>],
     [t |-> "dict", v |-> <<"k", "v">>]}

\* the caller creates a mapping to pass as headers
NewMapping(content) ==
    /\ Len(heap) < MaxMappings
    /\ resps = <<>>
    /\ heap' = Append(heap, content)
    /\ UNCHANGED <<appVars, conn, resps, req, probe, users_db>>

\* Response(body, headers=None, content_type=content_type): a new mapping
NewResponse(body, content_type) ==
    /\ Len(resps) < MaxResponses
    /\ heap' = Append(heap, ResponseInit(body, 200, ReasonOK, None, content_type).headers)
    /\ resps' = Append(resps, [body |-> ResponseInit(body, 200, ReasonOK, None,
                                                     content_type).body,
                               status_code |-> 200,
                               reason_phrase |-> ReasonOK,
                               headers |-> Len(heap) + 1])
    /\ UNCHANGED <<appVars, conn, req, probe, users_db>>

\* Response(body, headers=<the mapping h>, content_type=content_type)
NewResponseWith(body, h, content_type) ==
    /\ Len(resps) < MaxResponses
    /\ h \in DOMAIN heap
    /\ heap' = [heap EXCEPT ![h] = ResponseInit(body, 200, ReasonOK, Given(heap[h]),
                                                content_type).headers]
    /\ resps' = Append(resps, [body |-> ResponseInit(body, 200, ReasonOK, Given(heap[h]),
                                                     content_type).body,
                               status_code |-> 200,
                               reason_phrase |-> ReasonOK,
                               headers |-> h])
    /\ UNCHANGED <<appVars, conn, req, probe, users_db>>

InitResp ==
    /\ routes = EmptyDict
    /\ users_db = InitialUsers
    /\ phase = "startup"
    /\ call = NoCall
    /\ conn = [c \in Conns |-> IdleConn]
    /\ heap = <<>>
    /\ resps = <<>>
    /\ req = NoReq
    /\ probe = NoProbe

NextResp ==
    \/ \E content \in CallerMappings : NewMapping(content)
    \/ \E body \in ResponseBodies, ct \in {ApplicationJson, TextPlain} : NewResponse(body, ct)
    \/ \E body \in ResponseBodies, h \in 1..MaxMappings, ct \in {ApplicationJson, TextPlain} :
          NewResponseWith(body, h, ct)

SpecResp == InitResp /\ [][NextResp]_vars

\* C8: every Response constructed so far has, in its headers, a
\* Content-Length whose value is the decimal byte length of its body.
C8_ContentLength ==
    \A i \in DOMAIN resps :
        /\ DictHas(heap[resps[i].headers], HdrContentLength)
        /\ DictGet(heap[resps[i].headers], HdrContentLength) = IntToStr(Len(resps[i].body))

(***************************************************************************)
(* Constructing a Request from a scope (SpecReq).  The bodies are all byte *)
(* strings of at most MaxBodyLen bytes over BodyBytes.                     *)
(***************************************************************************)
BodyBytes == {"[", "]", "1", ",", " ", "{", "}", "xC3", "xA9", "xFF"}

\* application/json;
JsonWithParameter == ApplicationJson \o <<";">>

RequestHeaders ==
    {<<>>,
     <<<<KeyContentType, ApplicationJson>>>>,
     <<<<KeyContentType, JsonWithParameter>>>>,
     <<<<KeyContentType, TextPlain>>>>}

InitReq ==
    /\ routes = EmptyDict
    /\ users_db = InitialUsers
    /\ phase = "startup"
    /\ call = NoCall
    /\ conn = [c \in Conns |-> IdleConn]
    /\ heap = <<>>
    /\ resps = <<>>
    /\ probe = NoProbe
    /\ \E headers \in RequestHeaders, body \in SeqsUpTo(BodyBytes, MaxBodyLen) :
          req = [made |-> FALSE,
                 scope |-> [type |-> TypeHttp, method |-> POST, path |-> <<"/", "u">>,
                            headers |-> headers, body |-> body]]

\* request = Request(scope)
ConstructRequest ==
    /\ ~req.made
    /\ req' = [made |-> TRUE, scope |-> req.scope, request |-> RequestInit(req.scope)]
    /\ UNCHANGED <<appVars, conn, heap, resps, probe, users_db>>

NextReq == ConstructRequest

SpecReq == InitReq /\ [][NextReq]_vars

\* the scope declares a JSON body
DeclaresJson(scope) ==
    \E i \in DOMAIN scope.headers :
        scope.headers[i][1] = KeyContentType /\ Contains(ApplicationJson, scope.headers[i][2])

\* the body is the UTF-8 encoding of a JSON text
ValidJsonBody(body) == Utf8Valid(body) /\ JsonLoads(Utf8Decode(body)).ok

\* C10: constructing a Request whose content-type contains application/json
\* never fails; the parsed body is the decoded value when the body is valid
\* JSON and is absent for every other body, bodies that are not decodable
\* text included.
C10_JsonDetectionNeverFails ==
    (req.made /\ DeclaresJson(req.scope)) =>
        /\ req.request.exc = ""
        /\ IF ValidJsonBody(req.scope.body)
           THEN /\ req.request.json.present
                /\ req.request.json.val = JsonLoads(Utf8Decode(req.scope.body)).val
           ELSE ~req.request.json.present

(***************************************************************************)
(* Parsing a request stream (SpecParse).  A stream is a request line, a    *)
(* block of header lines, the blank line or nothing, and body bytes.       *)
(***************************************************************************)
RequestLines ==
    {<<"G", "E", "T", " ", "/", "u", " ", "H", "T", "T", "P", "/", "1", ".", "1", "\r", "\n">>,
     <<"G", "E", "T", " ", "/", "u", "\r", "\n">>,
     <<"G", "E", "T", " ", "/", "u", " ", "H", "T", "T", "P", "/", "1", ".", "1", " ", "x", "\r", "\n">>,
     <<"G", "E", "T", " ", " ", "/", "u", " ", "H", "T", "T", "P", "/", "1", ".", "1", "\r", "\n">>,
     <<"G", "E", "T", "\r", "\n">>,
     <<"G", "E", "T", " ", "/", "%", "7", "5", " ", "H", "T", "T", "P", "/", "1", ".", "1", "\r", "\n">>,
     <<"G", "E", "T", " ", "/", "u", "?", "a", " ", "H", "T", "T", "P", "/", "1", ".", "1", "\r", "\n">>,
     <<>>}

GoodRequestLine ==
    <<"G", "E", "T", " ", "/", "u", " ", "H", "T", "T", "P", "/", "1", ".", "1", "\r", "\n">>

\* Content-Length: <value>\r\n
ContentLengthLine(value) == HdrContentLength \o <<":", " ">> \o value \o CRLF

DeclaredLengths == 0..(MAX_BODY_SIZE + 2)

HeaderBlocks ==
    {<<>>,
     <<"H", "o", "s", "t", ":", " ", "x", "\r", "\n">>,
     <<"b", "a", "d", "\r", "\n">>,
     ContentLengthLine(<<"x">>),
     ContentLengthLine(<<"-", "1">>)}
    \cup {ContentLengthLine(IntToStr(n)) : n \in DeclaredLengths}

\* the body bytes the client sends: k times "a", or an undecodable byte first
BodiesSent ==
    {[i \in 1..k |-> "a"] : k \in 0..(MAX_BODY_SIZE + 2)}
    \cup {<<"xFF">> \o [i \in 1..k |-> "a"] : k \in 0..MAX_BODY_SIZE}

InitParse ==
    /\ routes = EmptyDict
    /\ users_db = InitialUsers
    /\ phase = "startup"
    /\ call = NoCall
    /\ conn = [c \in Conns |-> IdleConn]
    /\ heap = <<>>
    /\ resps = <<>>
    /\ req = NoReq
    /\ \E line \in RequestLines, block \in HeaderBlocks, blank \in {CRLF, <<>>},
          body \in BodiesSent :
          probe = [made |-> FALSE, line |-> line, block |-> block, blank |-> blank,
                   sent |-> body]

\* await http_handler.parse_http_request(self.MAX_BODY_SIZE)
ParseStream ==
    /\ ~probe.made
    /\ probe' = [probe EXCEPT !.made = TRUE] @@
                [parsed |-> ParseHttpRequest(probe.line \o probe.block \o probe.blank
                                             \o probe.sent, MAX_BODY_SIZE)]
    /\ UNCHANGED <<appVars, conn, heap, resps, req, users_db>>

NextParse == ParseStream

SpecParse == InitParse /\ [][NextParse]_vars

\* the parsed stream is a good request line, a Content-Length header that
\* declares n, and the blank line, followed by the body bytes sent
Declares(n) ==
    /\ probe.made
    /\ probe.line = GoodRequestLine
    /\ probe.block = ContentLengthLine(IntToStr(n))
    /\ probe.blank = CRLF

HeadLength == Len(probe.line) + Len(probe.block) + Len(probe.blank)

\* C9: with a declared content-length n and the maximum M, if n <= M and the
\* stream supplies n body bytes, parsing succeeds with a body of exactly
\* those n bytes; if n >= M + 1 the request is rejected as a parse failure
\* and no body byte is read from the stream.
C9_BodySizeBoundary ==
    \A n \in DeclaredLengths :
        Declares(n) =>
            /\ (n <= MAX_BODY_SIZE /\ Len(probe.sent) >= n) =>
                  /\ probe.parsed.kind = "scope"
                  /\ probe.parsed.scope.body = SubSeq(probe.sent, 1, n)
                  /\ probe.parsed.bodyRead = n
            /\ (n >= MAX_BODY_SIZE + 1) =>
                  /\ probe.parsed.kind # "scope"
                  /\ probe.parsed.bodyRead = 0
                  /\ probe.parsed.pos = HeadLength

\* one byte over the maximum, all of it sent: rejected, nothing of it read
C9_Witness ==
    /\ Declares(MAX_BODY_SIZE + 1)
    /\ Len(probe.sent) = MAX_BODY_SIZE + 1
    /\ probe.parsed.kind = "exc"
    /\ probe.parsed.pos = HeadLength

(***************************************************************************)
(* The server (Spec): the application registers its routes while its       *)
(* module is loaded, main() starts the server, and every accepted          *)
(* connection gets a task that runs __handle_request.  The tasks run on    *)
(* one thread and interleave at their awaits.                              *)
(***************************************************************************)
HttpVersion == <<"H", "T", "T", "P", "/", "1", ".", "1">>

RequestLine(method, target) == method \o <<" ">> \o target \o <<" ">> \o HttpVersion \o CRLF

Filler(k) == [i \in 1..k |-> "a"]

\* GET /u -> H1, GET /u/{a} -> H2, POST /u -> H3, in the order of registration
ServerRoutes ==
    <<<<GET, <<"/", "u">>, "H1">>,
      <<GET, <<"/", "u", "/", "{", "a", "}">>, "H2">>,
      <<POST, <<"/", "u">>, "H3">>>>

ServerStreams ==
    {<<>>,
     RequestLine(GET, <<"/", "u">>) \o CRLF,
     RequestLine(GET, <<"/", "u", "/", "b">>) \o CRLF,
     RequestLine(GET, <<"/", "x">>) \o CRLF,
     GET \o <<" ", "/", "u">> \o CRLF \o CRLF,
     RequestLine(GET, <<"/", "u">>) \o <<"b", "a", "d">> \o CRLF \o CRLF,
     RequestLine(POST, <<"/", "u">>) \o ContentLengthLine(IntToStr(MAX_BODY_SIZE + 1)) \o CRLF
         \o Filler(MAX_BODY_SIZE + 1),
     RequestLine(POST, <<"/", "u">>) \o ContentLengthLine(IntToStr(MAX_BODY_SIZE + 1)) \o CRLF,
     RequestLine(POST, <<"/", "u">>) \o ContentLengthLine(IntToStr(MAX_BODY_SIZE)) \o CRLF
         \o Filler(MAX_BODY_SIZE - 1),
     RequestLine(POST, <<"/", "u">>) \o ContentLengthLine(<<"x">>) \o CRLF,
     RequestLine(POST, <<"/", "u">>) \o ContentLengthLine(IntToStr(MAX_BODY_SIZE)) \o CRLF
         \o Filler(MAX_BODY_SIZE),
     RequestLine(POST, <<"/", "u">>),
     RequestLine(GET, <<"/", "u">>) \o <<"H", "o", "s", "t", ":", " ", "x">> \o CRLF}

\* the decorators of the application module, in the order they are written
RegisterNext ==
    /\ phase = "startup"
    /\ RouteCount(routes) < Len(ServerRoutes)
    /\ LET r == ServerRoutes[RouteCount(routes) + 1]
       IN  routes' = AddRoute(routes, r[1], r[2], r[3])
    /\ UNCHANGED <<phase, call, otherVars>>

\* main(): AsyncHTTPServer(app).listen_serve()
ListenServe ==
    /\ phase = "startup"
    /\ RouteCount(routes) = Len(ServerRoutes)
    /\ phase' = "serving"
    /\ UNCHANGED <<routes, call, otherVars>>

\* asyncio accepts a connection and creates the task for __handle_request
Accept(c, stream) ==
    /\ phase = "serving"
    /\ conn[c].pc = "none"
    /\ conn' = [conn EXCEPT ![c] = [@ EXCEPT !.pc = "accepted", !.stream = stream]]
    /\ UNCHANGED <<appVars, heap, resps, req, probe, users_db>>

\* what the sends of a call sequence passed to writer.write, in order
RECURSIVE Written(_)
Written(sends) == IF sends = <<>> THEN <<>> ELSE Head(sends).wrote \o Written(Tail(sends))

\* an exception leaves __handle_request: the task fails.  The code never closes
\* the writer then; whether the transport gets closed is up to the asyncio
\* runtime (`runtime` is "runtime" when it closes the transport of a failed
\* task, "no" when it leaves it open).
TaskFails(k, exc, runtime) ==
    [k EXCEPT !.pc = "failed", !.exc = exc,
              !.closed = IF k.closed = "no" THEN runtime ELSE k.closed]

\* the except branch of __handle_request (lines 39-41)
Fallback(k, drains, runtime) ==
    LET send == SendHttpResponse(500, ReasonWentWrong, None, DefaultBody, drains)
        k1 == [k EXCEPT !.sends = @ + 1, !.wrote = @ \o send.wrote,
                        !.closed = IF send.closed THEN "server" ELSE @]
    IN  IF send.exc # "" THEN TaskFails(k1, send.exc, runtime)
        ELSE [k1 EXCEPT !.pc = "done"]

\* what parse_http_request(self.MAX_BODY_SIZE) returns for each of the streams
ServerParses ==
    [stream \in ServerStreams |-> ParseHttpRequest(stream, MAX_BODY_SIZE)]

\* a listener that goes on to the application whatever the parser returned
ParseThenAlwaysDispatch(c, runtime) ==
    /\ conn[c].pc = "accepted"
    /\ LET r == ServerParses[conn[c].stream]
       IN  conn' = [conn EXCEPT ![c] =
                       [@ EXCEPT !.pc = "parsed", !.parses = @ + 1, !.pos = r.pos,
                                 !.parse = [kind |-> r.kind, why |-> r.why, exc |-> r.exc],
                                 !.scope = r.scope]]
    /\ UNCHANGED <<appVars, heap, resps, req, probe, users_db>>

\* asgi_scope = await http_handler.parse_http_request(self.MAX_BODY_SIZE), and
\* the return of line 32 when there is no scope
Parse(c, runtime) ==
    /\ conn[c].pc = "accepted"
    /\ LET r == ServerParses[conn[c].stream]
           k == [conn[c] EXCEPT
                    !.parses = @ + 1,
                    !.pos = r.pos,
                    !.parse = [kind |-> r.kind, why |-> r.why, exc |-> r.exc],
                    !.scope = r.scope,
                    !.sends = @ + Len(r.sends),
                    !.wrote = @ \o Written(r.sends),
                    !.closed = IF \E i \in DOMAIN r.sends : r.sends[i].closed
                               THEN "server" ELSE @]
       IN  conn' = [conn EXCEPT ![c] =
                       IF r.kind = "scope" THEN [k EXCEPT !.pc = "parsed"]
                       ELSE IF r.kind = "none" THEN [k EXCEPT !.pc = "done"]
                       ELSE TaskFails(k, r.exc, runtime)]
    /\ UNCHANGED <<appVars, heap, resps, req, probe, users_db>>

\* a dispatch that drops the entries of the method it has served
CallAppConsumingRoutes(c, raises, runtime) ==
    /\ conn[c].pc = "parsed"
    /\ LET a == AppCall(routes, conn[c].scope, raises)
           k == [conn[c] EXCEPT !.calls = @ + 1, !.app = a, !.raises = raises]
           send == SendHttpResponse(a.response.status_code, a.response.reason_phrase,
                                    Given(a.response.headers),
                                    [t |-> "bytes", v |-> a.response.body], TRUE)
       IN  conn' = [conn EXCEPT ![c] =
                       IF a.kind = "dict"
                       THEN IF send.exc = ""
                            THEN [k EXCEPT !.pc = "draining", !.sends = @ + 1,
                                           !.wrote = @ \o send.wrote]
                            ELSE Fallback([k EXCEPT !.sends = @ + 1], TRUE, runtime)
                       ELSE Fallback(k, TRUE, runtime)]
    /\ routes' = IF DictHas(routes, conn[c].scope.method)
                 THEN DictSet(routes, conn[c].scope.method, <<>>) ELSE routes
    /\ UNCHANGED <<phase, call, heap, resps, req, probe, users_db>>

\* response = await self.app(asgi_scope), then send_http_response(**response)
\* up to writer.write; a failure on the way runs the except branch
CallApp(c, raises, runtime) ==
    /\ conn[c].pc = "parsed"
    /\ LET a == AppCall(routes, conn[c].scope, raises)
           k == [conn[c] EXCEPT !.calls = @ + 1, !.app = a, !.raises = raises]
           send == SendHttpResponse(a.response.status_code, a.response.reason_phrase,
                                    Given(a.response.headers),
                                    [t |-> "bytes", v |-> a.response.body], TRUE)
       IN  conn' = [conn EXCEPT ![c] =
                       IF a.kind = "dict"
                       THEN IF send.exc = ""
                            THEN [k EXCEPT !.pc = "draining", !.sends = @ + 1,
                                           !.wrote = @ \o send.wrote]
                            ELSE Fallback([k EXCEPT !.sends = @ + 1], TRUE, runtime)
                       ELSE Fallback(k, TRUE, runtime)]
    /\ UNCHANGED <<appVars, heap, resps, req, probe, users_db>>

\* await self.writer.drain(), self.writer.close(), await self.writer.wait_closed();
\* drain raises when the peer has reset the connection
Drain(c, drains, runtime) ==
    /\ conn[c].pc = "draining"
    /\ conn' = [conn EXCEPT ![c] =
                   IF drains THEN [@ EXCEPT !.pc = "done", !.closed = "server"]
                   ELSE Fallback([@ EXCEPT !.reset = TRUE], TRUE, runtime)]
    /\ UNCHANGED <<appVars, heap, resps, req, probe, users_db>>

Init ==
    /\ routes = EmptyDict
    /\ users_db = InitialUsers
    /\ phase = "startup"
    /\ call = NoCall
    /\ conn = [c \in Conns |-> IdleConn]
    /\ heap = <<>>
    /\ resps = <<>>
    /\ req = NoReq
    /\ probe = NoProbe

Next ==
    \/ RegisterNext
    \/ ListenServe
    \/ \E c \in Conns, stream \in ServerStreams : Accept(c, stream)
    \/ \E c \in Conns, runtime \in {"no", "runtime"} : Parse(c, runtime)
    \/ \E c \in Conns, raises \in BOOLEAN, runtime \in {"no", "runtime"} :
          CallApp(c, raises, runtime)
    \/ \E c \in Conns, drains \in BOOLEAN, runtime \in {"no", "runtime"} :
          Drain(c, drains, runtime)

Spec == Init /\ [][Next]_vars

(***************************************************************************)
(* Claims about the connection cycle, checked under Spec.                  *)
(***************************************************************************)
StatusLineStart == HttpVersion \o <<" ">>

\* the status code of a byte string that starts like an HTTP response, else 0
StatusOf(bytes) ==
    IF /\ Len(bytes) >= Len(StatusLineStart) + 4
       /\ SubSeq(bytes, 1, Len(StatusLineStart)) = StatusLineStart
       /\ \A i \in 1..3 : IsDigit(bytes[Len(StatusLineStart) + i])
       /\ bytes[Len(StatusLineStart) + 4] = " "
    THEN DigitsToInt(SubSeq(bytes, Len(StatusLineStart) + 1, Len(StatusLineStart) + 3))
    ELSE 0

\* the head of a response ends with an empty line
Complete(bytes) ==
    \E i \in 1..(Len(bytes) - 3) : SubSeq(bytes, i, i + 3) = CRLF \o CRLF

ResponseWritten(c, status) ==
    \E i \in DOMAIN conn[c].wrote :
        StatusOf(conn[c].wrote[i]) = status /\ Complete(conn[c].wrote[i])

\* the task of the connection has returned or failed
Ended(c) == conn[c].pc \in {"done", "failed"}

ParseFailed(c) == conn[c].parse.kind \in {"none", "exc"}

\* the request has its head terminated by the empty line and was parsed into a scope
WellFormed(c) == Complete(conn[c].stream) /\ conn[c].parse.kind = "scope"

HandlerRaisedOn(c) ==
    /\ conn[c].calls > 0
    /\ conn[c].app.routed
    /\ conn[c].app.invoked # <<>>
    /\ conn[c].raises

\* C1: a connection whose well-formed request was routed to a handler that
\* raised has a complete response with status 500 written to it once its
\* cycle has ended or it has been closed.
C1_Status500Written ==
    \A c \in Conns :
        (WellFormed(c) /\ HandlerRaisedOn(c) /\ (Ended(c) \/ conn[c].closed # "no"))
            => ResponseWritten(c, 500)

\* C2: a connection whose request failed to parse has a response with
\* status 400 written to it and has been closed by the server.
C2_Status400ThenClosed ==
    \A c \in Conns :
        (ParseFailed(c) /\ Ended(c))
            => (ResponseWritten(c, 400) /\ conn[c].closed = "server")

\* C4: once the cycle of an accepted connection has ended, on whatever path,
\* the connection has been closed.
C4_ClosedWhenEnded ==
    \A c \in Conns : Ended(c) => conn[c].closed # "no"

\* C11: on a connection whose request failed to parse, the application
\* callable is never called and no handler is ever invoked.
C11_NoDispatchAfterParseFailure ==
    \A c \in Conns :
        ParseFailed(c) => (conn[c].calls = 0 /\ conn[c].app = NoApp)

\* a connection whose parse failed and whose task has ended, next to one that
\* was dispatched
C11_Witness ==
    \E c, d \in Conns :
        /\ ParseFailed(c) /\ Ended(c)
        /\ conn[d].calls = 1 /\ Ended(d)

\* C12: on every connection the request is parsed at most once, the
\* application is called at most once and invokes at most one handler, and
\* at most one response is handed to the connection's writer, also when
\* writing or flushing a response fails.
C12_AtMostOnce ==
    \A c \in Conns :
        /\ conn[c].parses <= 1
        /\ conn[c].calls <= 1
        /\ Len(conn[c].app.invoked) <= 1
        /\ Len(conn[c].wrote) <= 1

\* the flush of a written response failed and the fallback send ran
C12_Witness ==
    \E c \in Conns :
        /\ conn[c].reset
        /\ Ended(c)
        /\ conn[c].sends = 2
        /\ Len(conn[c].wrote) = 1

\* what a client is to receive for the Response of handler h: status line,
\* the header lines, an empty line, and the body bytes as they are
ServedBytes(h) ==
    LET resp == HandlerResponse(h)
    IN  StatusLineStart \o IntToStr(resp.status_code) \o <<" ">> \o resp.reason_phrase \o CRLF
        \o HeaderLines(resp.headers) \o CRLF \o resp.body

\* the cycle of the connection failed: its parse failed or its handler raised
CycleFailed(d) == Ended(d) /\ (ParseFailed(d) \/ HandlerRaisedOn(d))

\* a well-formed request that reached a handler which did not raise, on a
\* connection the peer kept open until the cycle ended
HandledWithoutRaise(c) ==
    /\ Ended(c)
    /\ WellFormed(c)
    /\ conn[c].calls = 1
    /\ conn[c].app.invoked # <<>>
    /\ ~conn[c].raises
    /\ ~conn[c].reset

\* C13: when the cycle of one connection has failed, every other connection
\* that carried a well-formed request to a non-raising handler has received
\* exactly the response of its own handler and has been closed.
C13_OthersStillServed ==
    \A c, d \in Conns :
        (c # d /\ CycleFailed(d) /\ HandledWithoutRaise(c))
            => /\ conn[c].wrote = <<ServedBytes(Head(conn[c].app.invoked))>>
               /\ conn[c].closed = "server"

(***************************************************************************)
(* Claims about the application entry point, checked under SpecApp.        *)
(***************************************************************************)
\* C14: a call of the entry point with a payload whose type is not "http"
\* returns a result with status 400 and invokes neither the router nor a
\* handler.
C14_NonHttpReturns400 ==
    (call.made /\ call.scope.type # TypeHttp)
        => /\ call.result.kind = "dict"
           /\ call.result.response.status_code = 400
           /\ ~call.result.routed
           /\ call.result.invoked = <<>>

(***************************************************************************)
(* Claims about the parser's failure cases.                                *)
(***************************************************************************)
\* the stream consists of complete lines, the first of them not empty, and
\* ends before an empty line was sent
Unterminated(stream) ==
    /\ Len(stream) > Len(CRLF)
    /\ SubSeq(stream, Len(stream) - 1, Len(stream)) = CRLF
    /\ SubSeq(stream, 1, 2) # CRLF
    /\ ~Complete(stream)

\* C15 (under Spec): when the stream ends after the request line and zero or
\* more header lines, before the empty line, parsing fails: no scope is
\* produced and the application is not called.
C15_UnterminatedHeadFails ==
    \A c \in Conns :
        (conn[c].parses = 1 /\ Unterminated(conn[c].stream))
            => (ParseFailed(c) /\ conn[c].scope = NoScope /\ conn[c].calls = 0)

\* the parts of a text between single spaces
RECURSIVE SpaceParts(_)
SpaceParts(s) ==
    IF Find(" ", s) = 0 THEN <<s>>
    ELSE <<SubSeq(s, 1, Find(" ", s) - 1)>> \o SpaceParts(SubSeq(s, Find(" ", s) + 1, Len(s)))

\* the request line without its line end
LineText(line) ==
    IF Len(line) >= 2 /\ SubSeq(line, Len(line) - 1, Len(line)) = CRLF
    THEN SubSeq(line, 1, Len(line) - 2) ELSE line

\* C16 (under SpecParse): parsing yields a scope only when the request line
\* splits on single spaces into exactly three parts; an empty stream and a
\* line of fewer or more parts are parse failures.
C16_ExactlyThreeParts ==
    probe.made =>
        (probe.parsed.kind = "scope" => Len(SpaceParts(LineText(probe.line))) = 3)

(***************************************************************************)
(* Claims about registration, checked under SpecApp.                       *)
(***************************************************************************)
\* the template has a placeholder whose identifier is empty or starts with a digit
MalformedPlaceholder(t) ==
    \E i \in 1..(Len(t) - 1) : t[i] = "{" /\ (t[i + 1] = "}" \/ IsDigit(t[i + 1]))

\* C17: registering a template with a malformed placeholder identifier is
\* rejected and leaves the route table unchanged: no entry of the table
\* ever stems from such a template.
C17_MalformedTemplateRejected ==
    \A i \in DOMAIN routes : \A j \in DOMAIN routes[i][2] :
        \A t \in Templates :
            MalformedPlaceholder(t) => routes[i][2][j].pattern # Pattern(t)

(***************************************************************************)
(* Claims about the request target, checked under SpecParse.               *)
(***************************************************************************)
\* percent-decoding of a text; the escapes of the model are %75 ("u") and %2F ("/")
RECURSIVE PercentDecode(_)
PercentDecode(s) ==
    IF s = <<>> THEN <<>>
    ELSE IF Len(s) >= 3 /\ SubSeq(s, 1, 3) = <<"%", "7", "5">>
    THEN <<"u">> \o PercentDecode(SubSeq(s, 4, Len(s)))
    ELSE IF Len(s) >= 3 /\ SubSeq(s, 1, 3) = <<"%", "2", "F">>
    THEN <<"/">> \o PercentDecode(SubSeq(s, 4, Len(s)))
    ELSE <<Head(s)>> \o PercentDecode(Tail(s))

\* the target of a request line, and the part of it before the query string
TargetOf(line) == SpaceParts(LineText(line))[2]

BeforeQuery(target) ==
    IF Find("?", target) = 0 THEN target ELSE SubSeq(target, 1, Find("?", target) - 1)

\* C18: the path of the scope is the percent-decoded path component of the
\* request target, with the query string removed.
C18_PathPercentDecoded ==
    (probe.made /\ probe.parsed.kind = "scope")
        => probe.parsed.scope.path = PercentDecode(BeforeQuery(TargetOf(probe.line)))

(***************************************************************************)
(* Claims about the route table while the server runs (Spec).              *)
(***************************************************************************)
\* C19: once registration has finished, no step of request handling changes
\* the route table: whatever is dispatched, matched, unmatched or raising,
\* the per-method lists of entries stay exactly what they were.
C19_RoutesReadOnly == [][phase = "serving" => routes' = routes]_vars

\* requests were dispatched: one matched with a raising handler, one unmatched
C19_Witness ==
    \E c, d \in Conns :
        /\ conn[c].calls = 1 /\ conn[c].app.invoked # <<>> /\ conn[c].raises
        /\ conn[d].calls = 1 /\ conn[d].app.routed /\ conn[d].app.invoked = <<>>
        /\ RouteCount(routes) = Len(ServerRoutes)

(***************************************************************************)
(* The demo store (SpecStore): create_user and delete_user on users_db.    *)
(***************************************************************************)
InitStore == InitCommon

\* create_user: 201 and the new user stored under new_id, or 400 and no change
CreateUser(json) ==
    /\ Len(users_db) < MaxUsers
    /\ users_db' = IF Truthy(json)
                   THEN DictSet(users_db, NewId(users_db),
                                UserRecord(NewId(users_db), json.name))
                   ELSE users_db
    /\ UNCHANGED <<appVars, conn, heap, resps, req, probe>>

\* delete_user: 204 and the user removed, or 404 and no change
DeleteUser(user_id) ==
    /\ users_db' = IF DictHas(users_db, user_id) THEN DictDel(users_db, user_id)
                   ELSE users_db
    /\ UNCHANGED <<appVars, conn, heap, resps, req, probe>>

NextStore ==
    \/ \E json \in JsonPayloads : CreateUser(json)
    \/ \E user_id \in UserIds : DeleteUser(user_id)

SpecStore == InitStore /\ [][NextStore]_vars

\* C20: a successful create stores the new user under an id that was not a
\* key of the store: the store grows by exactly one user and every user
\* that was stored is still stored unchanged.
C20_CreateUsesFreshId ==
    [][\A json \in JsonPayloads :
          (CreateUser(json) /\ Truthy(json))
              => /\ ~DictHas(users_db, NewId(users_db))
                 /\ Len(users_db') = Len(users_db) + 1
                 /\ \A i \in DOMAIN users_db :
                        DictGet(users_db', users_db[i][1]) = users_db[i][2]]_vars
====
